---- MODULE Spec2Model ----
\* Inventory alert relay (TheToolShedRep/inventory-alert): the GET /alert
\* intake handler of every server.js variant kept in the repository, with its
\* cooldown map, push dispatch and spreadsheet log client.
\*
\* Text is a sequence of one-character strings; times are milliseconds.
EXTENDS Integers, Sequences, FiniteSets, TLC

\* ------------------------------------------------------------------ bounds
MaxReq == 2          \* GET /alert requests per behaviour
MaxTicks == 2        \* clock advances per behaviour
MaxRows == 2         \* rows of the sheet at start, beyond the padding
MaxLen == 3          \* characters of a text handed to a text helper
PadRows == 49        \* old rows a padded sheet starts with
StartTime == 100000  \* Date.now() at process start (epoch ms, scaled down)

\* --------------------------------------------------------------- constants
COOLDOWN_MS == 60 * 1000

\* The server.js variants that define an /alert route with a log client.
Variants == {"logging", "cooldown", "shared_secret", "self_hosted", "delegated"}

\* Variants whose handler has the cooldown gate and the prettified page.
HasCooldown(v) == v \in {"cooldown", "shared_secret", "self_hosted", "delegated"}

\* Variants whose handler skips the push when the OneSignal env vars are unset.
ChecksPushConfig(v) == v \in {"shared_secret", "self_hosted", "delegated"}

\* Variants that read the push response with response.json(), outside any
\* inner try; the others read it with response.text().
ParsesJsonUnguarded(v) == v \in {"logging", "cooldown"}

\* -------------------------------------------------------------------- text
Lower == <<"a","b","c","d","e","f","g","h","i","j","k","l","m",
           "n","o","p","q","r","s","t","u","v","w","x","y","z">>
Upper == <<"A","B","C","D","E","F","G","H","I","J","K","L","M",
           "N","O","P","Q","R","S","T","U","V","W","X","Y","Z">>
Digits == {"0","1","2","3","4","5","6","7","8","9"}

IndexIn(c, s) ==
  IF \E i \in 1..Len(s) : s[i] = c THEN CHOOSE i \in 1..Len(s) : s[i] = c ELSE 0

toUpperCase(c) == LET i == IndexIn(c, Lower) IN IF i > 0 THEN Upper[i] ELSE c
toLowerCase(c) == LET i == IndexIn(c, Upper) IN IF i > 0 THEN Lower[i] ELSE c

\* \w of the regular expression /\w\S*/g
IsWordChar(c) == IndexIn(c, Lower) > 0 \/ IndexIn(c, Upper) > 0 \/ c \in Digits \/ c = "_"
\* complement of \S
IsSpace(c) == c \in {" ", "\t", "\n", "\r"}

\* input.replace(/_/g, " ")
ReplaceUnderscores(s) == [i \in 1..Len(s) |-> IF s[i] = "_" THEN " " ELSE s[i]]

\* .replace(/\w\S*/g, w => w.charAt(0).toUpperCase() + w.slice(1).toLowerCase()):
\* inWord says that position i lies inside a match that began earlier.
RECURSIVE TitleFrom(_, _, _)
TitleFrom(s, i, inWord) ==
  IF i > Len(s) THEN << >>
  ELSE IF inWord
       THEN IF IsSpace(s[i])
            THEN <<s[i]>> \o TitleFrom(s, i + 1, FALSE)
            ELSE <<toLowerCase(s[i])>> \o TitleFrom(s, i + 1, TRUE)
       ELSE IF IsWordChar(s[i])
            THEN <<toUpperCase(s[i])>> \o TitleFrom(s, i + 1, TRUE)
            ELSE <<s[i]>> \o TitleFrom(s, i + 1, FALSE)

\* A query parameter as Express hands it over: absent, a string, or (when the
\* parameter is repeated) a list whose String() form is v.
Missing == [t |-> "missing", v |-> << >>]
Str(s) == [t |-> "str", v |-> s]
List(s) == [t |-> "list", v |-> s]

\* let { item = "unknown", ... } = req.query
Destructure(q, d) == IF q.t = "missing" THEN Str(d) ELSE q

\* JavaScript truthiness of a destructured parameter
Truthy(q) == q.t = "list" \/ Len(q.v) > 0

\* A prettifyText that leaves the underscores in.
prettifyText_keepsUnderscores(q) ==
  IF q.t = "list" THEN [threw |-> TRUE, v |-> << >>]
  ELSE [threw |-> FALSE, v |-> TitleFrom(q.v, 1, FALSE)]

\* prettifyText(input = ""): a value without .replace throws a TypeError.
prettifyText(q) ==
  IF q.t = "list" THEN [threw |-> TRUE, v |-> << >>]
  ELSE [threw |-> FALSE, v |-> TitleFrom(ReplaceUnderscores(q.v), 1, FALSE)]

unknown == <<"u","n","k","n","o","w","n">>
milk == <<"m","i","l","k">>
bar == <<"b","a","r">>


ip == <<"i","p">>
userAgent == <<"u","a">>

\* Query inputs of the requests.
ItemInputs == {Str(milk), List(milk \o <<",">> \o milk)}
QtyInputs == {Str(<<"l","o","w">>)}
LocationInputs == {Missing, Str(bar)}

\* What the push API call can do: answer 2xx with JSON, answer non-2xx with
\* JSON, answer with a body that is not JSON, or fail at the network level.
PushOutcomes == {"ok", "http_error", "bad_body", "throws"}
AppendOutcomes == {"ok", "fail"}
\* GOOGLE_SERVICE_ACCOUNT_JSON / SHEET_ID: unset, set but unusable, usable.
SheetsEnvs == {"missing", "malformed", "ok"}
\* Step sizes of the clock.
TickSteps == {COOLDOWN_MS \div 2}

\* -------------------------------------------------------------------- time
\* Milliseconds of a UTC day, the unit of Date's calendar fields.
DAY_MS == 24 * 60 * 60 * 1000

IsLeapYear(y) == (y % 4 = 0 /\ y % 100 # 0) \/ y % 400 = 0
DaysInYear(y) == IF IsLeapYear(y) THEN 366 ELSE 365
\* m counts from 0, as getUTCMonth() does
DaysInMonth(y, m) ==
  IF m = 1 THEN (IF IsLeapYear(y) THEN 29 ELSE 28)
  ELSE IF m \in {3, 5, 8, 10} THEN 30 ELSE 31

\* The calendar date n days after the first day of month m of year y.
RECURSIVE CivilFrom(_, _, _)
CivilFrom(n, y, m) ==
  IF m = 0 /\ n >= DaysInYear(y) THEN CivilFrom(n - DaysInYear(y), y + 1, 0)
  ELSE IF n >= DaysInMonth(y, m) THEN CivilFrom(n - DaysInMonth(y, m), y, m + 1)
  ELSE [year |-> y, month |-> m, date |-> n + 1]

getUTCFullYear(t) == CivilFrom(t \div DAY_MS, 1970, 0).year
getUTCMonth(t) == CivilFrom(t \div DAY_MS, 1970, 0).month
getUTCDate(t) == CivilFrom(t \div DAY_MS, 1970, 0).date

\* Date.UTC(y, m, d) / DAY_MS: days from 1970-01-01 to the date (month from 0).
RECURSIVE DaysBeforeYear(_)
DaysBeforeYear(y) == IF y <= 1970 THEN 0 ELSE DaysInYear(y - 1) + DaysBeforeYear(y - 1)
RECURSIVE DaysBeforeMonth(_, _)
DaysBeforeMonth(y, m) ==
  IF m <= 0 THEN 0 ELSE DaysInMonth(y, m - 1) + DaysBeforeMonth(y, m - 1)
DaysBefore(y, m, d) == DaysBeforeYear(y) + DaysBeforeMonth(y, m) + d - 1

\* A timestamp cell of the sheet: the text "YYYY-MM-DDTHH:mm:ss.sssZ" is kept
\* as its fields (month from 1, time = ms since midnight); any other text is
\* "text", the empty cell "empty".
EmptyCell == [kind |-> "empty", year |-> 0, month |-> 0, date |-> 0, time |-> 0]
TextCell == [kind |-> "text", year |-> 0, month |-> 0, date |-> 0, time |-> 0]

\* new Date().toISOString()
toISOString(t) ==
  [kind |-> "iso", year |-> getUTCFullYear(t), month |-> getUTCMonth(t) + 1,
   date |-> getUTCDate(t), time |-> t % DAY_MS]

\* new Date(timestamp).getTime(): NaN is [nan |-> TRUE].
DateParse(c) ==
  IF c.kind = "iso"
  THEN [nan |-> FALSE,
        ms |-> DaysBefore(c.year, c.month - 1, c.date) * DAY_MS + c.time]
  ELSE [nan |-> TRUE, ms |-> 0]

\* isSameUTCDay(timestamp, refDate)
isSameUTCDay(timestamp, refDate) ==
  LET d == DateParse(timestamp)
  IN IF d.nan THEN FALSE
     ELSE /\ getUTCFullYear(d.ms) = getUTCFullYear(refDate)
          /\ getUTCMonth(d.ms) = getUTCMonth(refDate)
          /\ getUTCDate(d.ms) = getUTCDate(refDate)

\* ------------------------------------------------------------------- state
VARIABLES
  variant,            \* which server.js is deployed
  ONESIGNAL_APP_ID,   \* TRUE when the env var is set
  ONESIGNAL_API_KEY,  \* TRUE when the env var is set
  sheetsEnv,          \* state of the Google Sheets env vars
  sheetsClient,       \* TRUE once the client is cached (null before)
  lastAlertByKey,     \* cooldown map: key -> arrival time of the last push
  sheet,              \* rows of Sheet1, in append order
  req,                \* the GET /alert requests and their handlers' locals
  clock,              \* Date.now()
  ticks,              \* clock advances so far
  gateConfigured,     \* TRUE when the access gate's env vars are set: MANAGER_KEY,
                      \* or the CLERK_* three, or LOGIN_PASS_HASH and JWT_SECRET
  issued,             \* expiry times (s) of the tokens POST /login has signed
  login,              \* the answer to the latest POST /login
  view,               \* the requests to /checklist, /manager, /manager.csv
  input,              \* a value handed to one of the text helpers
  output              \* what the helper returned for it

vars == <<variant, ONESIGNAL_APP_ID, ONESIGNAL_API_KEY, sheetsEnv, sheetsClient,
          lastAlertByKey, sheet, req, clock, ticks,
          gateConfigured, issued, login, view, input, output>>

\* What the /alert handler never touches, and what the other routes never touch.
viewVars == <<gateConfigured, issued, login, view>>
alertVars == <<ONESIGNAL_APP_ID, ONESIGNAL_API_KEY, lastAlertByKey, req>>
\* What no route handler touches.
textVars == <<input, output>>

Requests == 1..MaxReq
\* The requests to the protected routes kept on record.
Views == DOMAIN view

\* What a request presents to the access gate: k says what it is, exp is the
\* expiry (s) of a token.
NoCred == [k |-> "none", exp |-> 0]

NoLogin ==
  [userOk |-> FALSE, cmp |-> "none", res |-> "none", cookie |-> FALSE, at |-> 0]

NoView ==
  [pc |-> "idle", route |-> "none", cred |-> NoCred, range |-> Missing,
   admitted |-> FALSE,
   rangeParam |-> << >>, readLog |-> FALSE, get |-> "none", fetched |-> << >>,
   now |-> 0,
   res |-> "none", returnTo |-> "none", rows |-> << >>]

NoOutput == [fn |-> "none", threw |-> FALSE, v |-> << >>, class |-> "none"]

NoRequest ==
  [pc |-> "idle", item |-> Missing, qty |-> Missing, location |-> Missing,
   key |-> << >>, now |-> 0, isRateLimited |-> FALSE,
   pushCalls |-> 0, pushResult |-> "none",
   logCalls |-> 0, logResult |-> "none", timestamp |-> 0,
   res |-> "none", page |-> "none", escaped |-> FALSE]

Init ==
  /\ variant \in Variants
  /\ ONESIGNAL_APP_ID \in BOOLEAN
  /\ ONESIGNAL_API_KEY \in BOOLEAN
  /\ sheetsEnv \in SheetsEnvs
  /\ sheetsClient = FALSE
  /\ lastAlertByKey = [k \in {} |-> 0]
  /\ sheet = << >>
  /\ req = [r \in Requests |-> NoRequest]
  /\ clock = StartTime
  /\ ticks = 0
  /\ gateConfigured = FALSE
  /\ issued = {}
  /\ login = NoLogin
  /\ view = <<NoView>>
  /\ input = Missing
  /\ output = NoOutput

\* -------------------------------------------------------------- log client
\* getSheetsClient(): "client", "null", or "throw". The fragment at the top
\* of src/server.js has no try and no env check; every later variant has both.
getSheetsClient(v, env, cached) ==
  IF v = "fragment"
  THEN IF cached THEN "client"
       ELSE IF env = "ok" THEN "client" ELSE "throw"
  ELSE IF env = "missing" THEN "null"
       ELSE IF cached THEN "client"
       ELSE IF env = "ok" THEN "client" ELSE "null"

\* A log client whose catch lets the error out again.
logAlertToSheet_rethrows(gc, append) ==
  IF gc = "throw" THEN "thrown"
  ELSE IF gc = "null" THEN "skipped"
  ELSE IF append = "ok" THEN "appended" ELSE "thrown"

\* logAlertToSheet(): how the call ends, given what getSheetsClient produced
\* and how the append call went.
logAlertToSheet(gc, append) ==
  IF gc = "throw" THEN "caught"
  ELSE IF gc = "null" THEN "skipped"
  ELSE IF append = "ok" THEN "appended" ELSE "caught"

\* ----------------------------------------------------------- /alert handler
IsRateLimited_inclusive(now, last) == now - last <= COOLDOWN_MS

\* const isRateLimited = now - last < COOLDOWN_MS
IsRateLimited(now, last) == now - last < COOLDOWN_MS

\* const last = lastAlertByKey[key] || 0
LastOf(map, key) == IF key \in DOMAIN map THEN map[key] ELSE 0

\* const key = `${item}|${location || ""}`
KeyOf(item, location) == item.v \o <<"|">> \o location.v

\* The branch of the handler that calls fetch.
ShouldPush(v, appId, apiKey, limited) ==
  IF ChecksPushConfig(v) THEN appId /\ apiKey /\ ~limited
  ELSE IF HasCooldown(v) THEN ~limited
  ELSE TRUE

PushThrows_swallowed(v, outcome) == FALSE

\* Whether the awaited push section (fetch, then reading the body) throws.
PushThrows(v, outcome) ==
  \/ outcome = "throws"
  \/ ParsesJsonUnguarded(v) /\ outcome = "bad_body"

\* statusTitle of the confirmation page ("plain" is the text-only answer of
\* the variant without a page).
statusTitle(v, limited) ==
  IF ~HasCooldown(v) THEN "plain"
  ELSE IF limited THEN "logged" ELSE "sent"

\* The handler has returned: its locals are gone, what it did stays on record.
Done(rec) ==
  [rec EXCEPT !.pc = "done", !.item = Missing, !.qty = Missing,
              !.location = Missing, !.timestamp = 0]

\* catch (err) { res.status(500).send(...) }
Catch500(rec) == Done([rec EXCEPT !.res = "500", !.page = "error"])

\* The handler after `await logAlertToSheet(...)` ended with lr.
Finish(rec, lr) ==
  IF lr = "thrown"
  THEN Catch500([rec EXCEPT !.logResult = lr])
  ELSE Done([rec EXCEPT !.logResult = lr, !.res = "200",
                         !.page = statusTitle(variant, rec.isRateLimited)])

\* "2) Log to sheet": the call of logAlertToSheet up to its network await.
StartLog(rec) ==
  LET gc == getSheetsClient(variant, sheetsEnv, sheetsClient)
      called == [rec EXCEPT !.logCalls = @ + 1]
  IN IF gc = "client"
     THEN [called EXCEPT !.pc = "awaitLog", !.timestamp = clock]
     ELSE Finish(called, logAlertToSheet(gc, "none"))

ClientAfterLog == sheetsClient \/ getSheetsClient(variant, sheetsEnv, sheetsClient) = "client"

\* The row logAlertToSheet builds.
RowOf(rec) ==
  IF HasCooldown(variant)
  THEN <<toISOString(rec.timestamp), prettifyText(rec.item).v, prettifyText(rec.qty).v,
         IF Truthy(rec.location) THEN prettifyText(rec.location).v ELSE << >>,
         ip, userAgent>>
  ELSE <<toISOString(rec.timestamp), rec.item.v, rec.qty.v, ip, userAgent>>

\* The clock advances.
Tick(d) ==
  /\ ticks < MaxTicks
  /\ clock' = clock + d
  /\ ticks' = ticks + 1
  /\ UNCHANGED <<variant, ONESIGNAL_APP_ID, ONESIGNAL_API_KEY, sheetsEnv,
                 sheetsClient, lastAlertByKey, sheet, req, viewVars, textVars>>

\* GET /alert arrives: the handler runs up to its first network await.
Alert(r, qi, qq, ql) ==
  /\ req[r].pc = "idle"
  /\ \A s \in 1..(r - 1) : req[s].pc # "idle"
  /\ LET item == Destructure(qi, unknown)
         qty == Destructure(qq, unknown)
         location == Destructure(ql, << >>)
         throws == /\ HasCooldown(variant)
                   /\ \/ prettifyText(item).threw
                      \/ prettifyText(qty).threw
                      \/ Truthy(location) /\ prettifyText(location).threw
         key == IF HasCooldown(variant) THEN KeyOf(item, location) ELSE << >>
         limited == HasCooldown(variant)
                    /\ IsRateLimited(clock, LastOf(lastAlertByKey, key))
         arrived == [req[r] EXCEPT !.item = item, !.qty = qty,
                                   !.location = location]
         entered == [arrived EXCEPT !.key = key,
                                    !.now = IF HasCooldown(variant) THEN clock ELSE 0,
                                    !.isRateLimited = limited]
     IN IF throws
        THEN \* the TypeError is raised before the try: nothing in the
             \* handler answers; Express 4 leaves the request open, Express 5
             \* hands the rejection to its own error handler
             /\ \E fw \in {"none", "500"} :
                  req' = [req EXCEPT ![r] =
                            Done([arrived EXCEPT !.escaped = TRUE, !.res = fw,
                                                 !.page = IF fw = "500"
                                                          THEN "framework"
                                                          ELSE "none"])]
             /\ UNCHANGED sheetsClient
        ELSE IF ShouldPush(variant, ONESIGNAL_APP_ID, ONESIGNAL_API_KEY, limited)
        THEN /\ req' = [req EXCEPT ![r] =
                          [entered EXCEPT !.pc = "awaitPush", !.pushCalls = @ + 1]]
             /\ UNCHANGED sheetsClient
        ELSE /\ req' = [req EXCEPT ![r] = StartLog(entered)]
             /\ sheetsClient' = ClientAfterLog
  /\ UNCHANGED <<variant, ONESIGNAL_APP_ID, ONESIGNAL_API_KEY, sheetsEnv,
                 lastAlertByKey, sheet, clock, ticks, viewVars, textVars>>

\* The awaited push call of request r ends with the given outcome.
PushReturns(r, outcome) ==
  /\ req[r].pc = "awaitPush"
  /\ LET rec == [req[r] EXCEPT !.pushResult = outcome]
     IN IF PushThrows(variant, outcome)
        THEN /\ req' = [req EXCEPT ![r] = Catch500(rec)]
             /\ UNCHANGED <<lastAlertByKey, sheetsClient>>
        ELSE /\ lastAlertByKey' =
                  IF HasCooldown(variant)
                  THEN [k \in DOMAIN lastAlertByKey \cup {rec.key} |->
                          IF k = rec.key THEN rec.now ELSE lastAlertByKey[k]]
                  ELSE lastAlertByKey
             /\ req' = [req EXCEPT ![r] = StartLog(rec)]
             /\ sheetsClient' = ClientAfterLog
  /\ UNCHANGED <<variant, ONESIGNAL_APP_ID, ONESIGNAL_API_KEY, sheetsEnv,
                 sheet, clock, ticks, viewVars, textVars>>

\* A spreadsheet call that puts the new row above the rows already there.
AppendRow_front(rows, row) == <<row>> \o rows

\* sheets.spreadsheets.values.append on Sheet1!A:F: the row goes below the
\* last row of the table.
AppendRow(rows, row) == Append(rows, row)

\* The awaited append call of request r ends.
AppendReturns(r, a) ==
  /\ req[r].pc = "awaitLog"
  /\ sheet' = IF a = "ok" THEN AppendRow(sheet, RowOf(req[r])) ELSE sheet
  /\ req' = [req EXCEPT ![r] = Finish(req[r], logAlertToSheet("client", a))]
  /\ UNCHANGED <<variant, ONESIGNAL_APP_ID, ONESIGNAL_API_KEY, sheetsEnv,
                 sheetsClient, lastAlertByKey, clock, ticks, viewVars, textVars>>

Next ==
  \/ \E d \in TickSteps : Tick(d)
  \/ \E r \in Requests, qi \in ItemInputs, qq \in QtyInputs, ql \in LocationInputs :
       Alert(r, qi, qq, ql)
  \/ \E r \in Requests, o \in PushOutcomes : PushReturns(r, o)
  \/ \E r \in Requests, a \in AppendOutcomes : AppendReturns(r, a)

Spec == Init /\ [][Next]_vars

\* Requests handled one after the other: a request arrives only when no
\* handler is suspended.
NoneInFlight == \A r \in Requests : req[r].pc \in {"idle", "done"}

SeqNext ==
  \/ \E d \in TickSteps : Tick(d)
  \/ /\ NoneInFlight
     /\ \E r \in Requests, qi \in ItemInputs, qq \in QtyInputs, ql \in LocationInputs :
          Alert(r, qi, qq, ql)
  \/ \E r \in Requests, o \in PushOutcomes : PushReturns(r, o)
  \/ \E r \in Requests, a \in AppendOutcomes : AppendReturns(r, a)

SeqSpec == Init /\ [][SeqNext]_vars

\* ------------------------------------------------------------- log reading
\* const [timestamp = "", item = "", ...] = r
EventOf(r) ==
  [timestamp |-> IF Len(r) >= 1 THEN r[1] ELSE EmptyCell,
   item      |-> IF Len(r) >= 2 THEN r[2] ELSE << >>,
   qty       |-> IF Len(r) >= 3 THEN r[3] ELSE << >>,
   location  |-> IF Len(r) >= 4 THEN r[4] ELSE << >>,
   ip        |-> IF Len(r) >= 5 THEN r[5] ELSE << >>,
   userAgent |-> IF Len(r) >= 6 THEN r[6] ELSE << >>]

\* rows.slice(0, limit)
SliceFirst(rows, limit) ==
  SubSeq(rows, 1, IF limit < Len(rows) THEN limit ELSE Len(rows))

\* rows.slice(-limit); -0 is 0, so slice(-0) keeps every row
SliceLast(rows, limit) ==
  LET n == Len(rows)
      start == IF limit > 0 THEN (IF n - limit > 0 THEN n - limit ELSE 0)
               ELSE (IF -limit < n THEN -limit ELSE n)
  IN SubSeq(rows, start + 1, n)

\* Array.prototype.reverse
Reverse(s) == [i \in 1..Len(s) |-> s[Len(s) + 1 - i]]

\* A reader that keeps the oldest rows of the sheet instead of the newest.
getRecentAlertsFromSheet_oldest(gc, get, rows, limit) ==
  IF gc # "client" \/ get # "ok" \/ Len(rows) = 0
  THEN [threw |-> FALSE, alerts |-> << >>]
  ELSE LET recent == SliceFirst(rows, limit)
       IN [threw |-> FALSE,
           alerts |-> Reverse([i \in 1..Len(recent) |-> EventOf(recent[i])])]

\* A reader whose catch lets the error out again.
getRecentAlertsFromSheet_rethrows(gc, get, rows, limit) ==
  IF gc = "throw" \/ (gc = "client" /\ get # "ok")
  THEN [threw |-> TRUE, alerts |-> << >>]
  ELSE IF gc = "null" \/ Len(rows) = 0
  THEN [threw |-> FALSE, alerts |-> << >>]
  ELSE LET recent == SliceLast(rows, limit)
       IN [threw |-> FALSE,
           alerts |-> Reverse([i \in 1..Len(recent) |-> EventOf(recent[i])])]

\* getRecentAlertsFromSheet(limit): gc is what getSheetsClient produced, get
\* how the values.get call went, rows what it returned.
getRecentAlertsFromSheet(gc, get, rows, limit) ==
  IF gc = "throw" THEN [threw |-> FALSE, alerts |-> << >>]
  ELSE IF gc = "null" THEN [threw |-> FALSE, alerts |-> << >>]
  ELSE IF get # "ok" THEN [threw |-> FALSE, alerts |-> << >>]
  ELSE IF Len(rows) = 0 THEN [threw |-> FALSE, alerts |-> << >>]
  ELSE LET recent == SliceLast(rows, limit)
       IN [threw |-> FALSE,
           alerts |-> Reverse([i \in 1..Len(recent) |-> EventOf(recent[i])])]

\* alerts.filter((a) => isSameUTCDay(a.timestamp, now))
TodayOnly(alerts, now) ==
  LET Today(a) == isSameUTCDay(a.timestamp, now) IN SelectSeq(alerts, Today)

\* String.prototype.toLowerCase on a text
LowerCase(s) == [i \in 1..Len(s) |-> toLowerCase(s[i])]

Contains(s, w) ==
  \E i \in 1..(Len(s) - Len(w) + 1) : SubSeq(s, i, i + Len(w) - 1) = w

LowWords ==
  { <<"l","o","w">>, <<"r","u","n","n","i","n","g">>, <<"o","u","t">>,
    <<"e","m","p","t","y">>, <<"c","r","i","t","i","c","a","l">> }

\* /(low|running|out|empty|critical)/i.test(a.qty || "")
IsLow(qty) == \E w \in LowWords : Contains(LowerCase(qty), w)

\* const key = `${a.item || ""}|${a.location || ""}`
ChecklistKey(a) == a.item \o <<"|">> \o a.location

\* for (const a of lowAlerts) if (!byKey.has(key)) byKey.set(key, a);
\* Array.from(byKey.values())
RECURSIVE Dedupe(_, _, _)
Dedupe(alerts, i, seen) ==
  IF i > Len(alerts) THEN << >>
  ELSE IF ChecklistKey(alerts[i]) \in seen THEN Dedupe(alerts, i + 1, seen)
  ELSE <<alerts[i]>> \o Dedupe(alerts, i + 1, seen \cup {ChecklistKey(alerts[i])})

\* items of /checklist
ChecklistItems(alerts, now) ==
  LET Low(a) == IsLow(a.qty)
  IN Dedupe(SelectSeq(TodayOnly(alerts, now), Low), 1, {})

\* getRecentAlertsFromSheet(200) / (50) / (500)
CHECKLIST_LIMIT == 200
MANAGER_LIMIT == 50
CSV_LIMIT == 500

Routes == {"checklist", "manager", "manager.csv"}
LimitOf(route) ==
  IF route = "checklist" THEN CHECKLIST_LIMIT
  ELSE IF route = "manager" THEN MANAGER_LIMIT ELSE CSV_LIMIT

all == <<"a","l","l">>
today == <<"t","o","d","a","y">>

\* A range read without lower-casing it.
RangeParam_exact(q) ==
  IF q.t = "list" THEN [threw |-> TRUE, v |-> << >>]
  ELSE IF ~Truthy(q) THEN [threw |-> FALSE, v |-> today]
  ELSE [threw |-> FALSE, v |-> q.v]

\* (req.query.range || "today").toLowerCase(): a repeated parameter is a
\* list, which has no toLowerCase.
RangeParam(q) ==
  IF q.t = "list" THEN [threw |-> TRUE, v |-> << >>]
  ELSE IF ~Truthy(q) THEN [threw |-> FALSE, v |-> LowerCase(today)]
  ELSE [threw |-> FALSE, v |-> LowerCase(q.v)]

\* The alerts a handler serves, of those it fetched.
ServedRows(route, rangeParam, alerts, now) ==
  IF route = "checklist" THEN ChecklistItems(alerts, now)
  ELSE IF rangeParam = all THEN alerts
  ELSE TodayOnly(alerts, now)

\* ------------------------------------------------------------ access gates
\* Variants that have the /checklist, /manager and /manager.csv routes.
ViewVariants == {"shared_secret", "self_hosted", "delegated"}

\* A key gate that turns everyone away while MANAGER_KEY is unset.
ManagerKeyGate_denyUnset(configured, cred) ==
  IF configured /\ cred.k = "key_ok" THEN "next" ELSE "401"

\* if (MANAGER_KEY) { if (providedKey !== MANAGER_KEY) return res.status(401)... }
ManagerKeyGate(configured, cred) ==
  IF configured
  THEN IF cred.k = "key_ok" THEN "next" ELSE "401"
  ELSE "next"

\* An identity check whose catch answers 500.
requireClerkAuth_hard(configured, cred) ==
  IF ~configured THEN "500"
  ELSE IF cred.k = "clerk_throws" THEN "500"
  ELSE IF cred.k = "clerk_user" THEN "next" ELSE "redirect"

\* requireClerkAuth: cred.k is what authenticateRequest did for this request
requireClerkAuth(configured, cred) ==
  IF ~configured THEN "500"
  ELSE IF cred.k = "clerk_throws" THEN "redirect"
  ELSE IF cred.k = "clerk_user" THEN "next"
  ELSE "redirect"

\* expiresIn: "7d", in seconds
TOKEN_LIFETIME_S == 7 * 24 * 60 * 60

\* A verification that does not look at the expiry.
verifyAuthToken_noExpiry(cred, now) == cred.k = "token"

\* verifyAuthToken: jwt.verify accepts a token signed with JWT_SECRET whose
\* exp lies after the current second
verifyAuthToken(cred, now) == cred.k = "token" /\ now \div 1000 < cred.exp

\* A gate that turns every token away once somebody has logged out.
requireAuth_sessionStore(configured, cred, now) ==
  IF ~configured THEN "500"
  ELSE IF login.res # "logout" /\ cred.k # "none" /\ verifyAuthToken(cred, now)
  THEN "next"
  ELSE "redirect"

\* requireAuth
requireAuth(configured, cred, now) ==
  IF ~configured THEN "500"
  ELSE IF cred.k # "none" /\ verifyAuthToken(cred, now) THEN "next"
  ELSE "redirect"

\* What stands between a request and the handler of the route.
Gate(v, route, configured, cred, now) ==
  IF v = "shared_secret"
  THEN IF route = "checklist" THEN "next" ELSE ManagerKeyGate(configured, cred)
  ELSE IF v = "self_hosted" THEN requireAuth(configured, cred, now)
  ELSE requireClerkAuth(configured, cred)

\* What a request can present in each variant.
CredInputs ==
  IF variant = "shared_secret"
  THEN {NoCred, [k |-> "key_ok", exp |-> 0], [k |-> "key_wrong", exp |-> 0]}
  ELSE IF variant = "delegated"
  THEN {[k |-> "clerk_none", exp |-> 0], [k |-> "clerk_user", exp |-> 0],
        [k |-> "clerk_throws", exp |-> 0]}
  ELSE {NoCred, [k |-> "forged", exp |-> 0]} \cup {[k |-> "token", exp |-> e] : e \in issued}

\* A request without a credential, and one with a credential in order.
PlainCreds ==
  IF variant = "shared_secret" THEN {NoCred, [k |-> "key_ok", exp |-> 0]}
  ELSE IF variant = "delegated"
  THEN {[k |-> "clerk_none", exp |-> 0], [k |-> "clerk_user", exp |-> 0]}
  ELSE {NoCred} \cup {[k |-> "token", exp |-> e] : e \in issued}

RangeInputs == {Missing, Str(all), Str([i \in 1..Len(all) |-> toUpperCase(all[i])]),
                List(all \o <<",">> \o all)}

\* The query of a request to the route: /checklist reads none of it.
RangeInputsOf(route) == IF route = "checklist" THEN {Missing} ELSE RangeInputs

\* ------------------------------------------------- /checklist, /manager, csv
ViewDone(rec) == [rec EXCEPT !.pc = "done"]

\* The handler after getRecentAlertsFromSheet ended with result.
ViewFinish(rec, result) ==
  IF result.threw
  THEN ViewDone([rec EXCEPT !.res = "500"])
  ELSE ViewDone([rec EXCEPT !.fetched = result.alerts, !.now = clock, !.res = "200",
                            !.rows = ServedRows(rec.route, rec.rangeParam,
                                                result.alerts, clock)])

\* A request to a protected route arrives (the record of an answered one makes
\* room for it): gate, range, and the reader up to its network await.
ViewArrives(v, route, cred, range) ==
  /\ variant \in ViewVariants
  /\ view[v].pc \in {"idle", "done"}
  /\ \A u \in 1..(v - 1) : view[u].pc # "idle"
  /\ LET g == Gate(variant, route, gateConfigured, cred, clock)
         arrived == [NoView EXCEPT !.route = route, !.cred = cred, !.range = range]
         rp == IF route = "checklist" THEN [threw |-> FALSE, v |-> << >>]
               ELSE RangeParam(range)
         admitted == [arrived EXCEPT !.admitted = TRUE, !.rangeParam = rp.v]
         gc == getSheetsClient(variant, sheetsEnv, sheetsClient)
     IN IF g # "next"
        THEN /\ view' = [view EXCEPT ![v] =
                           ViewDone([arrived EXCEPT !.res = g,
                                       !.returnTo = IF g = "redirect" THEN route
                                                    ELSE "none"])]
             /\ UNCHANGED sheetsClient
        ELSE IF rp.threw
        THEN /\ view' = [view EXCEPT ![v] = ViewDone([admitted EXCEPT !.res = "500"])]
             /\ UNCHANGED sheetsClient
        ELSE IF gc = "client"
        THEN /\ view' = [view EXCEPT ![v] =
                           [admitted EXCEPT !.pc = "awaitGet", !.readLog = TRUE]]
             /\ sheetsClient' = TRUE
        ELSE /\ view' = [view EXCEPT ![v] =
                           ViewFinish(admitted,
                                      getRecentAlertsFromSheet(gc, "none", << >>,
                                                               LimitOf(route)))]
             /\ UNCHANGED sheetsClient
  /\ UNCHANGED <<variant, sheetsEnv, sheet, clock, ticks, gateConfigured, issued,
                 login, alertVars, textVars>>

\* The awaited values.get of request v ends.
GetReturns(v, get) ==
  /\ view[v].pc = "awaitGet"
  /\ view' = [view EXCEPT ![v] =
                ViewFinish([view[v] EXCEPT !.get = get],
                           getRecentAlertsFromSheet("client", get, sheet,
                                                    LimitOf(view[v].route)))]
  /\ UNCHANGED <<variant, sheetsEnv, sheetsClient, sheet, clock, ticks,
                 gateConfigured, issued, login, alertVars, textVars>>

\* POST /login: userOk says username === LOGIN_USER, cmp what bcrypt.compare
\* does with the password (it is not called when an earlier check returns).
LoginAnswer(configured, userOk, cmp) ==
  IF ~configured THEN "500"
  ELSE IF ~userOk THEN "401"
  ELSE IF cmp = "throws" THEN "500"
  ELSE IF cmp = "mismatch" THEN "401"
  ELSE "redirect"

Login(userOk, cmp) ==
  /\ variant = "self_hosted"
  /\ LET answer == LoginAnswer(gateConfigured, userOk, cmp)
     IN /\ login' = [userOk |-> userOk, cmp |-> cmp, res |-> answer,
                     cookie |-> answer = "redirect", at |-> clock]
        /\ issued' = IF answer = "redirect"
                     THEN issued \cup {clock \div 1000 + TOKEN_LIFETIME_S}
                     ELSE issued
  /\ UNCHANGED <<variant, sheetsEnv, sheetsClient, sheet, clock, ticks,
                 gateConfigured, view, alertVars, textVars>>

\* GET /logout: the answer clears the cookie in the browser and redirects to
\* /login; the server keeps nothing.
Logout ==
  /\ variant = "self_hosted"
  /\ login' = [NoLogin EXCEPT !.res = "logout", !.at = clock]
  /\ UNCHANGED <<variant, sheetsEnv, sheetsClient, sheet, clock, ticks,
                 gateConfigured, issued, view, alertVars, textVars>>

\* --------------------------------------------------- the routes that read
\* 1970-01-06T12:00:00.000Z (times stay below 2^31 ms)
ViewStartTime == 5 * DAY_MS + DAY_MS \div 2

Milk == prettifyText(Str(milk)).v
Bar == prettifyText(Str(bar)).v
Low == prettifyText(Str(<<"l","o","w">>)).v
Ok == prettifyText(Str(<<"o","k">>)).v

\* The history the sheets are cut from: rows as GET /alert appends them
\* (item, qty and location prettified, timestamps in order), one whose
\* timestamp cell was overwritten by hand, and one cut short.
History ==
  << <<toISOString(ViewStartTime - DAY_MS), Milk, Low, Bar, ip, userAgent>>,
     <<TextCell, Milk, Low, Bar, ip, userAgent>>,
     <<toISOString(ViewStartTime - 10800000), Milk, Low, Bar, ip, userAgent>>,
     <<toISOString(ViewStartTime - 7200000), Milk, Low, Bar, ip, userAgent>>,
     <<toISOString(ViewStartTime - 3600000), Milk, Ok, Bar, ip, userAgent>>,
     <<toISOString(ViewStartTime - 3000000), <<"1","|","2">>, Low, << >>, ip, userAgent>>,
     <<toISOString(ViewStartTime - 2400000), <<"1">>, Low, <<"2","|">>, ip, userAgent>>,
     <<toISOString(ViewStartTime - 1800000), Milk>> >>

OldRow == <<toISOString(ViewStartTime - 5 * DAY_MS), Milk, Ok, Bar, ip, userAgent>>

\* The stretches of History of at most n rows.
Stretches(n) ==
  {t \in {SubSeq(History, i, j) : i \in 1..Len(History), j \in 0..Len(History)} :
     Len(t) <= n}

\* The sheets a deployment can hold at the start: a stretch of History of at
\* most MaxRows rows, or PadRows old rows and then the first MaxRows of History.
Logs ==
  Stretches(MaxRows)
    \cup {[i \in 1..PadRows |-> OldRow] \o SubSeq(History, 1, MaxRows)}

\* Twelve hours: from noon into the next UTC day.
ViewTickSteps == {DAY_MS \div 2}

ViewInit ==
  /\ variant \in ViewVariants
  /\ ONESIGNAL_APP_ID = TRUE
  /\ ONESIGNAL_API_KEY = TRUE
  /\ sheetsEnv \in SheetsEnvs
  /\ sheetsClient = FALSE
  /\ lastAlertByKey = [k \in {} |-> 0]
  /\ sheet \in Logs
  /\ req = [r \in Requests |-> NoRequest]
  /\ clock = ViewStartTime
  /\ ticks = 0
  /\ gateConfigured \in BOOLEAN
  /\ issued = {}
  /\ login = NoLogin
  /\ view = <<NoView>>
  /\ input = Missing
  /\ output = NoOutput

ViewNext ==
  \/ \E d \in ViewTickSteps : Tick(d)
  \/ issued = {} /\ Login(TRUE, "match")   \* one session is enough to read
  \/ \E v \in Views, route \in Routes, cred \in PlainCreds :
       \E range \in RangeInputsOf(route) : ViewArrives(v, route, cred, range)
  \/ \E v \in Views, get \in {"ok", "fail"} : GetReturns(v, get)

ViewSpec == ViewInit /\ [][ViewNext]_vars

\* One request to /manager and one to /manager.csv, each with a credential in
\* order, kept on record side by side.
PairInit ==
  /\ variant \in ViewVariants
  /\ ONESIGNAL_APP_ID = TRUE
  /\ ONESIGNAL_API_KEY = TRUE
  /\ sheetsEnv = "ok"
  /\ sheetsClient = FALSE
  /\ lastAlertByKey = [k \in {} |-> 0]
  /\ sheet \in Logs
  /\ req = [r \in Requests |-> NoRequest]
  /\ clock = ViewStartTime
  /\ ticks = 0
  /\ gateConfigured = TRUE
  /\ issued = {}
  /\ login = NoLogin
  /\ view = <<NoView, NoView>>
  /\ input = Missing
  /\ output = NoOutput

PairNext ==
  \/ \E d \in ViewTickSteps : Tick(d)
  \/ Login(TRUE, "match")
  \/ \E v \in Views, route \in {"manager", "manager.csv"},
        cred \in PlainCreds \ {NoCred, [k |-> "clerk_none", exp |-> 0]},
        range \in {Missing, Str(all)} :
       view[v].pc = "idle" /\ ViewArrives(v, route, cred, range)
  \/ \E v \in Views : GetReturns(v, "ok")

PairSpec == PairInit /\ [][PairNext]_vars

\* The access gates over the lifetime of a token: four days a step.
GateTickSteps == {4 * DAY_MS}

GateInit ==
  /\ variant \in ViewVariants
  /\ ONESIGNAL_APP_ID = TRUE
  /\ ONESIGNAL_API_KEY = TRUE
  /\ sheetsEnv \in SheetsEnvs
  /\ sheetsClient = FALSE
  /\ lastAlertByKey = [k \in {} |-> 0]
  /\ sheet \in {<< >>, <<OldRow>>}
  /\ req = [r \in Requests |-> NoRequest]
  /\ clock = ViewStartTime
  /\ ticks = 0
  /\ gateConfigured \in BOOLEAN
  /\ issued = {}
  /\ login = NoLogin
  /\ view = <<NoView>>
  /\ input = Missing
  /\ output = NoOutput

GateNext ==
  \/ \E d \in GateTickSteps : Tick(d)
  \/ \E userOk \in BOOLEAN, cmp \in {"match", "mismatch", "throws"} : Login(userOk, cmp)
  \/ \E v \in Views, route \in Routes, cred \in CredInputs :
       \E range \in RangeInputsOf(route) : ViewArrives(v, route, cred, range)
  \/ \E v \in Views, get \in {"ok", "fail"} : GetReturns(v, get)

GateSpec == GateInit /\ [][GateNext]_vars

\* Sessions of the self-hosted variant: logins, logouts and requests to the
\* protected routes with any token issued so far.
SessionInit ==
  /\ variant = "self_hosted"
  /\ ONESIGNAL_APP_ID = TRUE
  /\ ONESIGNAL_API_KEY = TRUE
  /\ sheetsEnv \in SheetsEnvs
  /\ sheetsClient = FALSE
  /\ lastAlertByKey = [k \in {} |-> 0]
  /\ sheet \in {<< >>, <<OldRow>>}
  /\ req = [r \in Requests |-> NoRequest]
  /\ clock = ViewStartTime
  /\ ticks = 0
  /\ gateConfigured \in BOOLEAN
  /\ issued = {}
  /\ login = NoLogin
  /\ view = <<NoView>>
  /\ input = Missing
  /\ output = NoOutput

SessionNext ==
  \/ \E d \in GateTickSteps : Tick(d)
  \/ \E cmp \in {"match", "mismatch"} : Login(TRUE, cmp)
  \/ Logout
  \/ \E v \in Views, route \in Routes, cred \in CredInputs :
       ViewArrives(v, route, cred, Missing)
  \/ \E v \in Views, get \in {"ok", "fail"} : GetReturns(v, get)

SessionSpec == SessionInit /\ [][SessionNext]_vars

\* Every route of a deployment side by side: GET /alert requests one after
\* the other, requests to the reading routes in between and while an append
\* is awaited.
RoutesInit ==
  /\ variant \in ViewVariants
  /\ ONESIGNAL_APP_ID = TRUE
  /\ ONESIGNAL_API_KEY = TRUE
  /\ sheetsEnv = "ok"
  /\ sheetsClient = FALSE
  /\ lastAlertByKey = [k \in {} |-> 0]
  /\ sheet = << >>
  /\ req = [r \in Requests |-> NoRequest]
  /\ clock = StartTime
  /\ ticks = 0
  /\ gateConfigured = TRUE
  /\ issued = {}
  /\ login = NoLogin
  /\ view = <<NoView>>
  /\ input = Missing
  /\ output = NoOutput

RoutesNext ==
  \/ \E d \in TickSteps : Tick(d)
  \/ /\ NoneInFlight
     /\ \E r \in Requests : Alert(r, Str(milk), Str(<<"l","o","w">>), Missing)
  \/ \E r \in Requests, o \in {"ok", "throws"} : PushReturns(r, o)
  \/ \E r \in Requests, a \in AppendOutcomes : AppendReturns(r, a)
  \/ issued = {} /\ Login(TRUE, "match")
  \/ \E v \in Views, route \in Routes, cred \in PlainCreds :
       cred # NoCred /\ ViewArrives(v, route, cred, Missing)
  \/ \E v \in Views, get \in {"ok", "fail"} : GetReturns(v, get)

RoutesSpec == RoutesInit /\ [][RoutesNext]_vars

\* GET /alert requests whose status differs: two texts, and the status
\* parameter given twice.
StatusInputs ==
  {Str(<<"l","o","w">>), Str(<<"o","u","t">>),
   List(<<"l","o","w">> \o <<",">> \o <<"o","u","t">>)}

StatusNext ==
  \/ \E d \in TickSteps : Tick(d)
  \/ \E r \in Requests, qq \in StatusInputs, ql \in LocationInputs :
       Alert(r, Str(milk), qq, ql)
  \/ \E r \in Requests, o \in PushOutcomes : PushReturns(r, o)
  \/ \E r \in Requests, a \in AppendOutcomes : AppendReturns(r, a)

StatusSpec == Init /\ [][StatusNext]_vars

\* ------------------------------------------------------- the text helpers
\* A classification that looks for the medium words first.
statusClass_mediumFirst(qty) ==
  LET normalized == LowerCase(qty)
  IN IF Contains(normalized, <<"l","o","w">>)
        \/ Contains(normalized, <<"r","u","n","n","i","n","g">>)
     THEN "status-warn"
     ELSE IF \/ Contains(normalized, <<"o","u","t">>)
             \/ Contains(normalized, <<"e","m","p","t","y">>)
             \/ Contains(normalized, <<"c","r","i","t","i","c","a","l">>)
     THEN "status-danger"
     ELSE "status-ok"

\* statusClass of a table row of /manager, from the row's qty text
statusClass(qty) ==
  LET normalized == LowerCase(qty)
  IN IF \/ Contains(normalized, <<"o","u","t">>)
        \/ Contains(normalized, <<"e","m","p","t","y">>)
        \/ Contains(normalized, <<"c","r","i","t","i","c","a","l">>)
     THEN "status-danger"
     ELSE IF \/ Contains(normalized, <<"l","o","w">>)
             \/ Contains(normalized, <<"r","u","n","n","i","n","g">>)
     THEN "status-warn"
     ELSE "status-ok"

\* str.replace(/"/g, '""')
RECURSIVE DoubleQuotes(_)
DoubleQuotes(s) ==
  IF s = << >> THEN << >>
  ELSE (IF Head(s) = "\"" THEN <<"\"", "\"">> ELSE <<Head(s)>>) \o DoubleQuotes(Tail(s))

\* An escaping that wraps the value and leaves its quotes single.
csvEscape_plain(value) == <<"\"">> \o value.v \o <<"\"">>

\* csvEscape(value = ""): String(value ?? "") wrapped in quotes, quotes doubled
csvEscape(value) == <<"\"">> \o DoubleQuotes(value.v) \o <<"\"">>

\* Array.prototype.join
RECURSIVE Join(_, _)
Join(parts, sep) ==
  IF parts = << >> THEN << >>
  ELSE IF Len(parts) = 1 THEN parts[1]
  ELSE parts[1] \o sep \o Join(Tail(parts), sep)

CsvHeader ==
  << <<"T","i","m","e">>, <<"I","t","e","m">>, <<"S","t","a","t","u","s">>,
     <<"L","o","c","a","t","i","o","n">>, <<"I","P">>,
     <<"U","s","e","r"," ","A","g","e","n","t">> >>

\* One line of the export: the six fields of an alert, escaped, joined by ",".
CsvLine(a) ==
  Join(<<csvEscape(Str(a.timestamp)), csvEscape(Str(a.item)), csvEscape(Str(a.qty)),
         csvEscape(Str(a.location)), csvEscape(Str(a.ip)),
         csvEscape(Str(a.userAgent))>>, <<",">>)

\* csvString of /manager.csv: the header line and one line per alert, joined
\* with CRLF.
CsvString(alerts) ==
  Join(<<Join([i \in 1..Len(CsvHeader) |-> csvEscape(Str(CsvHeader[i]))], <<",">>)>>
         \o [i \in 1..Len(alerts) |-> CsvLine(alerts[i])],
       <<"\r", "\n">>)

\* Alerts as the reader hands them to the export, whose cells hold the text t:
\* none, one or two of them.
CsvAlerts(t) ==
  [i \in 1..(Len(t) % 3) |->
     [timestamp |-> t, item |-> Milk, qty |-> t, location |-> << >>,
      ip |-> ip, userAgent |-> t]]

\* The characters the texts of the model are made of.
WordAlphabet == {"a", "B", "1", "_", " ", "-"}
CellAlphabet == {"a", "\"", ",", "\r", "\n"}
Texts(n) ==
  UNION {[1..k -> WordAlphabet] \cup [1..k -> CellAlphabet] : k \in 0..n}

\* Status words as staff type them, alone and in pairs.
StatusWords ==
  { <<"o","u","t">>, <<"E","M","P","T","Y">>, <<"C","r","i","t","i","c","a","l">>,
    <<"l","o","w">>, <<"R","u","n","n","i","n","g">>, <<"o","k">>,
    <<"s","l","o","w">>, <<"3">> }
StatusTexts ==
  StatusWords \cup {w1 \o <<" ">> \o w2 : w1, w2 \in StatusWords}

whole_milk == <<"w","h","o","l","e","_","m","i","l","k">>
ALREADY_CAPS == <<"A","L","R","E","A","D","Y"," ","C","A","P","S">>
Bobs == <<"B","o","b","\"","s">>
paren_low_2nd == <<"(","l","O","W",")"," ","2","N","D","_","s","h","e","l","f">>

\* The values handed to the helpers: undefined, or a text.
TextInputs ==
  {Missing} \cup
  {Str(s) : s \in Texts(MaxLen) \cup StatusTexts \cup {whole_milk, ALREADY_CAPS, Bobs, paren_low_2nd}}

\* The helper fn is called with the input.
Apply(fn) ==
  /\ output' =
       IF fn = "statusClass"
       THEN [fn |-> fn, threw |-> FALSE, v |-> << >>, class |-> statusClass(input.v)]
       ELSE IF fn = "csvEscape"
       THEN [fn |-> fn, threw |-> FALSE, v |-> csvEscape(input), class |-> "none"]
       ELSE IF fn = "manager.csv"
       THEN [fn |-> fn, threw |-> FALSE, v |-> CsvString(CsvAlerts(input.v)),
             class |-> "none"]
       ELSE LET r == prettifyText(input)
            IN [fn |-> fn, threw |-> r.threw, v |-> r.v, class |-> "none"]
  /\ UNCHANGED <<variant, sheetsEnv, sheetsClient, sheet, clock, ticks, input,
                 viewVars, alertVars>>

TextFns == {"statusClass", "prettifyText", "csvEscape", "manager.csv"}

TextInit ==
  /\ variant = "shared_secret"
  /\ ONESIGNAL_APP_ID = TRUE
  /\ ONESIGNAL_API_KEY = TRUE
  /\ sheetsEnv = "ok"
  /\ sheetsClient = FALSE
  /\ lastAlertByKey = [k \in {} |-> 0]
  /\ sheet = << >>
  /\ req = [r \in Requests |-> NoRequest]
  /\ clock = StartTime
  /\ ticks = 0
  /\ gateConfigured = TRUE
  /\ issued = {}
  /\ login = NoLogin
  /\ view = <<NoView>>
  /\ input \in TextInputs
  /\ output = NoOutput

TextNext == \E fn \in TextFns : Apply(fn)

TextSpec == TextInit /\ [][TextNext]_vars

\* ------------------------------------------------------------------ claims
Configured == ONESIGNAL_APP_ID /\ ONESIGNAL_API_KEY
Answered(r) == req[r].pc = "done" /\ ~req[r].escaped
ConfirmationPage(r) == req[r].res = "200" /\ req[r].page \in {"sent", "logged"}

\* C1: any two push dispatches for the same cooldown key come from requests
\* whose arrival times are at least 60 seconds apart, under any interleaving.
C1_DispatchesSpaced ==
  \A r1, r2 \in Requests :
    ( /\ variant \in {"shared_secret", "delegated"}
      /\ r1 # r2
      /\ req[r1].pushCalls > 0 /\ req[r2].pushCalls > 0
      /\ req[r1].key = req[r2].key
      /\ req[r1].now <= req[r2].now )
    => req[r2].now - req[r1].now >= 60000

\* C2: every GET /alert request makes a log-append attempt, whatever the
\* cooldown check and the push dispatch came to.
C2_AlwaysLogs ==
  \A r \in Requests :
    (variant \in {"shared_secret", "cooldown"} /\ Answered(r))
    => req[r].logCalls >= 1

\* C3: a request is suppressed exactly when its key has a stored entry and
\* now - entry < 60000 ms (an absent key counts as 0, so a first request is
\* never suppressed); a suppressed request makes no push call.
C3_SuppressedExactly ==
  [][\A r \in Requests :
       ( /\ HasCooldown(variant)
         /\ req[r].pc = "idle" /\ req'[r].pc # "idle" /\ ~req'[r].escaped )
       => /\ req'[r].isRateLimited <=>
               ( /\ req'[r].key \in DOMAIN lastAlertByKey
                 /\ clock - lastAlertByKey[req'[r].key] < 60000 )
          /\ req'[r].isRateLimited => req'[r].pushCalls = 0]_vars

\* A request answered as suppressed 30 s after a dispatch for the same key.
C3_Witness ==
  \E r1, r2 \in Requests :
    /\ HasCooldown(variant)
    /\ req[r1].pushCalls = 1 /\ req[r1].key = req[r2].key
    /\ Answered(r2) /\ req[r2].isRateLimited
    /\ req[r2].now - req[r1].now = 30000

\* C4: of two identical requests handled one after the other less than 60 s
\* apart, with push configured and an empty cooldown map, the first makes
\* exactly one log append and one push dispatch, the second exactly one log
\* append and no push dispatch.
C4_TwoIdenticalRequests ==
  ( /\ variant \in {"shared_secret", "self_hosted"}
    /\ Configured
    /\ Answered(1) /\ Answered(2)
    /\ req[1].key = req[2].key
    /\ req[2].now - req[1].now < 60000 )
  => /\ req[1].logCalls = 1 /\ req[1].pushCalls = 1
     /\ req[2].logCalls = 1 /\ req[2].pushCalls = 0

\* C5: when the push API answers with a non-success status or with a body
\* that is not JSON, the request still attempts the log append and returns
\* the 200 confirmation page.
C5_RejectedPushStillConfirms ==
  \A r \in Requests :
    ( /\ variant \in {"shared_secret", "cooldown", "delegated"}
      /\ req[r].pc = "done"
      /\ req[r].pushResult \in {"http_error", "bad_body"} )
    => req[r].logCalls = 1 /\ ConfirmationPage(r)

C7_LogFailureNonFatal ==
  /\ \A r \in Requests :
       /\ req[r].logResult # "thrown"
       /\ req[r].logResult \in {"skipped", "caught"}
          => req[r].pc = "done" /\ req[r].res = "200" /\ req[r].page # "error"
       /\ (req[r].pc = "done" /\ req[r].logCalls = 1 /\ sheetsEnv # "ok")
          => req[r].logResult = "skipped" /\ req[r].res = "200"
  /\ \A env \in SheetsEnvs, cached \in BOOLEAN, a \in AppendOutcomes :
       logAlertToSheet(getSheetsClient("fragment", env, cached), a)
         \in {"appended", "caught"}

\* A request whose append call failed and that was answered 200.
C7_Witness ==
  \E r \in Requests :
    /\ req[r].logCalls = 1 /\ req[r].logResult = "caught"
    /\ req[r].pc = "done" /\ req[r].res = "200"

\* C8: the page shows the 'notified' text exactly when a push was dispatched
\* during the request, and the 'logged only' text whenever none was.
C8_PageTellsDispatch ==
  \A r \in Requests :
    ( /\ variant \in {"shared_secret", "delegated"}
      /\ req[r].pc = "done" /\ req[r].res = "200" )
    => /\ req[r].page = "sent" <=> req[r].pushCalls > 0
       /\ req[r].pushCalls = 0 => req[r].page = "logged"

\* C9: without the push provider's app id or API key the request makes no
\* push call, still attempts the log append and returns 200.
C9_NoPushWithoutConfig ==
  \A r \in Requests :
    ( /\ variant \in {"shared_secret", "cooldown", "logging"}
      /\ ~Configured
      /\ req[r].pc # "idle" /\ ~req[r].escaped )
    => /\ req[r].pushCalls = 0
       /\ req[r].pc = "done" => req[r].logCalls = 1 /\ req[r].res = "200"

\* C10: every request, for every query input, ends with the 200 confirmation
\* page or the handler's plain-text 500; no exception escapes the handler.
C10_AlwaysAnswered ==
  \A r \in Requests :
    (variant = "delegated" /\ req[r].pc = "done")
    => /\ ~req[r].escaped
       /\ ConfirmationPage(r) \/ (req[r].res = "500" /\ req[r].page = "error")

\* The view requests that were answered 200 after their values.get returned rows.
ServedFromLog(v) ==
  /\ view[v].pc = "done" /\ view[v].res = "200"
  /\ view[v].get = "ok" /\ Len(view[v].fetched) > 0

\* C11: for a log of n rows and limit >= 1, getRecentAlertsFromSheet(limit)
\* returns exactly min(limit, n) events, the i-th (from 1) being the row
\* appended i-th from the end (row n-i counting rows from 0): the most
\* recently appended rows, newest first.
C11_RecentNewestFirst ==
  LET n == Len(sheet)
      Expected(limit, r) ==
        /\ Len(r) = IF limit < n THEN limit ELSE n
        /\ \A i \in 1..Len(r) : r[i] = EventOf(sheet[n - i + 1])
  IN /\ \A limit \in {1, 2, 3, MANAGER_LIMIT, CHECKLIST_LIMIT, CSV_LIMIT} :
          Expected(limit, getRecentAlertsFromSheet("client", "ok", sheet, limit).alerts)
     /\ \A v \in Views :
          ServedFromLog(v) => Expected(LimitOf(view[v].route), view[v].fetched)

\* /manager read a sheet longer than its limit and got the newest 50 rows.
C11_Witness ==
  \E v \in Views :
    /\ ServedFromLog(v) /\ view[v].route = "manager"
    /\ Len(sheet) > MANAGER_LIMIT /\ Len(view[v].fetched) = MANAGER_LIMIT
    /\ view[v].fetched[1] = EventOf(sheet[Len(sheet)])

\* C12: getRecentAlertsFromSheet returns an empty sequence and never throws
\* to its caller when the store is unconfigured, unreachable, or holds no rows.
C12_ReaderNeverThrows ==
  /\ \A v \in ViewVariants, env \in SheetsEnvs, cached \in BOOLEAN,
        get \in {"ok", "fail"}, limit \in {MANAGER_LIMIT, CHECKLIST_LIMIT, CSV_LIMIT} :
       LET gc == getSheetsClient(v, env, cached)
           result == getRecentAlertsFromSheet(gc, get, sheet, limit)
       IN /\ ~result.threw
          /\ (gc # "client" \/ get = "fail" \/ Len(sheet) = 0) => result.alerts = << >>
  /\ \A v \in Views :
       /\ (view[v].pc = "done" /\ view[v].admitted /\ view[v].route = "checklist")
          => view[v].res = "200"
       /\ (view[v].pc = "done" /\ view[v].readLog) => view[v].res = "200"
       /\ ( /\ view[v].pc = "done" /\ view[v].res = "200"
            /\ sheetsEnv # "ok" \/ view[v].get = "fail" \/ Len(sheet) = 0 )
          => view[v].fetched = << >>

\* The values.get call of a request failed on a sheet that holds rows.
C12_Witness ==
  \E v \in Views :
    /\ view[v].pc = "done" /\ view[v].readLog /\ view[v].get = "fail"
    /\ Len(sheet) > 0 /\ view[v].fetched = << >> /\ view[v].res = "200"

\* C13: GET /manager responds with status 500 when fetching the event log
\* from the store fails.
C13_FetchFailureAnswered500 ==
  \A v \in Views :
    ( /\ variant = "shared_secret"
      /\ view[v].route = "manager" /\ view[v].pc = "done"
      /\ view[v].readLog /\ view[v].get = "fail" )
    => view[v].res = "500"

\* The alerts whose timestamp cell holds the UTC year, month and day of now.
SameDayRows(alerts, now) ==
  LET Same(a) == /\ a.timestamp.kind = "iso"
                 /\ a.timestamp.year = getUTCFullYear(now)
                 /\ a.timestamp.month = getUTCMonth(now) + 1
                 /\ a.timestamp.date = getUTCDate(now)
  IN SelectSeq(alerts, Same)

ServedTable(v) ==
  /\ view[v].pc = "done" /\ view[v].res = "200"
  /\ view[v].route \in {"manager", "manager.csv"}

\* C14 as stated: in /manager and /manager.csv, with range=all the served
\* rows are exactly the fetched rows, newest first; with any other range value
\* (default today) they are exactly the fetched rows of the request's UTC day,
\* in the same order, rows with an unparseable timestamp left out.
C14_RangeAllOrToday ==
  \A v \in Views :
    ServedTable(v)
    => IF view[v].range = Str(all)
       THEN view[v].rows = view[v].fetched
       ELSE view[v].rows = SameDayRows(view[v].fetched, view[v].now)

\* C14 as amended: the range value is compared after lower-casing, so every
\* spelling of "all" (ALL, All, ...) serves exactly the fetched rows, newest
\* first; every other string, and the absent or empty parameter, serves
\* exactly the fetched rows of the request's UTC day in the same order, rows
\* with an unparseable timestamp left out; a repeated range parameter is
\* answered 500 without reading the log.
C14_RangeIgnoringCase ==
  \A v \in Views :
    ( /\ view[v].pc = "done" /\ view[v].admitted
      /\ view[v].route \in {"manager", "manager.csv"} )
    => IF view[v].range.t = "list"
       THEN view[v].res = "500" /\ ~view[v].readLog /\ view[v].rows = << >>
       ELSE /\ view[v].res = "200"
            /\ IF LowerCase(view[v].range.v) = all
               THEN view[v].rows = view[v].fetched
               ELSE view[v].rows = SameDayRows(view[v].fetched, view[v].now)

\* range=ALL served every fetched row, one of them not of the request's day.
C14_Witness ==
  \E v \in Views :
    /\ ServedTable(v)
    /\ view[v].range.t = "str" /\ view[v].range.v # all
    /\ LowerCase(view[v].range.v) = all
    /\ view[v].rows = view[v].fetched
    /\ Len(SameDayRows(view[v].fetched, view[v].now)) < Len(view[v].fetched)

IsPrefix(s, t) == Len(s) <= Len(t) /\ SubSeq(t, 1, Len(s)) = s

\* A /manager answer and a /manager.csv answer for the same range, taken with
\* the same clock reading.
SamePair(m, c) ==
  /\ view[m].pc = "done" /\ view[m].res = "200" /\ view[m].route = "manager"
  /\ view[c].pc = "done" /\ view[c].res = "200" /\ view[c].route = "manager.csv"
  /\ view[m].range = view[c].range
  /\ view[m].now = view[c].now

LowToday(v) ==
  LET Low_(a) == IsLow(a.qty)
  IN SelectSeq(SameDayRows(view[v].fetched, view[v].now), Low_)

PairOf(a) == <<a.item, a.location>>

\* C16: the checklist has exactly one entry for each distinct (item, location)
\* pair with at least one low-stock row of today in the fetched window, that
\* entry is the newest such row of the pair, and there are no other entries.
C16_OneEntryPerPair ==
  \A v \in Views :
    (view[v].pc = "done" /\ view[v].res = "200" /\ view[v].route = "checklist")
    => LET low == LowToday(v)
           items == view[v].rows
           pairs == {PairOf(low[j]) : j \in 1..Len(low)}
           Newest(p) == low[CHOOSE j \in 1..Len(low) :
                              /\ PairOf(low[j]) = p
                              /\ \A h \in 1..(j - 1) : PairOf(low[h]) # p]
       IN /\ Len(items) = Cardinality(pairs)
          /\ \A p \in pairs :
               \E i \in 1..Len(items) :
                 /\ PairOf(items[i]) = p /\ items[i] = Newest(p)
                 /\ \A h \in 1..Len(items) : PairOf(items[h]) = p => h = i

\* The credential the deployment asks of a manager: the manager key, a
\* signed-in Clerk user, or a token signed by POST /login.
HasCredential(rec) ==
  IF variant = "shared_secret" THEN rec.cred.k = "key_ok"
  ELSE IF variant = "delegated" THEN rec.cred.k = "clerk_user"
  ELSE rec.cred.k = "token" /\ rec.cred.exp \in issued

\* C17: in every variant that has the route, GET /checklist serves the
\* checklist only to a request that carries a valid credential.
C17_ChecklistGated ==
  \A v \in Views :
    (view[v].route = "checklist" /\ view[v].pc = "done" /\ view[v].res = "200")
    => HasCredential(view[v])

\* C18: in the shared-secret variant /manager and /manager.csv grant access
\* exactly when MANAGER_KEY is unset or the key parameter equals it; otherwise
\* they answer 401 without reading the log. With MANAGER_KEY unset every
\* request is allowed.
C18_ManagerKey ==
  \A v \in Views :
    ( /\ variant = "shared_secret"
      /\ view[v].pc = "done" /\ view[v].route \in {"manager", "manager.csv"} )
    => /\ view[v].admitted <=> (~gateConfigured \/ view[v].cred.k = "key_ok")
       /\ view[v].admitted => view[v].res \in {"200", "500"}
       /\ ~view[v].admitted
          => view[v].res = "401" /\ ~view[v].readLog /\ view[v].rows = << >>

\* A wrong key was answered 401, and the log was not read.
C18_Witness ==
  \E v \in Views :
    /\ variant = "shared_secret" /\ gateConfigured
    /\ view[v].pc = "done" /\ view[v].route = "manager"
    /\ view[v].cred.k = "key_wrong" /\ view[v].res = "401" /\ ~view[v].readLog

\* C19: in the delegated-session variant a protected handler runs only if
\* the identity check made for that same request returned a user id; every
\* failure of the check (absent token, invalid token, the check throwing) is
\* answered with a redirect to the sign-in URL carrying the return URL,
\* whatever earlier requests came to.
C19_ClerkGate ==
  \A v \in Views :
    (variant = "delegated" /\ view[v].pc = "done")
    => /\ view[v].admitted => gateConfigured /\ view[v].cred.k = "clerk_user"
       /\ (gateConfigured /\ view[v].cred.k # "clerk_user")
          => /\ view[v].res = "redirect" /\ view[v].returnTo = view[v].route
             /\ ~view[v].admitted /\ ~view[v].readLog /\ view[v].rows = << >>
       /\ ~gateConfigured => view[v].res = "500" /\ ~view[v].admitted

\* The identity check threw and the request was sent to the sign-in page.
C19_Witness ==
  \E v \in Views :
    /\ variant = "delegated" /\ gateConfigured /\ view[v].pc = "done"
    /\ view[v].cred.k = "clerk_throws"
    /\ view[v].res = "redirect" /\ view[v].returnTo = view[v].route

\* C20: in the self-hosted variant a protected route admits a request only
\* if it carries a token that POST /login signed and that has not expired;
\* a token is signed only by a POST /login with the configured username and a
\* matching password; a login with a wrong username or password is answered
\* 401 without a cookie; with login unconfigured the gate and POST /login
\* answer 500 and nobody is admitted.
C20_SelfHostedGate ==
  /\ [](variant = "self_hosted" =>
          /\ login.cookie
             => gateConfigured /\ login.userOk /\ login.cmp = "match"
          /\ (gateConfigured /\ login.res # "none"
                /\ (~login.userOk \/ login.cmp = "mismatch"))
             => login.res = "401" /\ ~login.cookie
          /\ login.res = "500" => ~login.cookie
          /\ ~gateConfigured
             => /\ issued = {} /\ login.res \in {"none", "500"}
                /\ \A v \in Views :
                     view[v].pc = "done" => view[v].res = "500" /\ ~view[v].admitted)
  /\ [][variant = "self_hosted" =>
          /\ issued' # issued => login'.cookie /\ login'.res = "redirect"
          /\ \A v \in Views :
               (view'[v] # view[v] /\ view[v].pc # "awaitGet" /\ view'[v].admitted)
               => /\ view'[v].cred.k = "token"
                  /\ view'[v].cred.exp \in issued
                  /\ clock \div 1000 < view'[v].cred.exp]_vars

\* A request carrying a token of POST /login was admitted and served.
C20_Witness ==
  \E v \in Views :
    /\ variant = "self_hosted" /\ login.cookie
    /\ view[v].pc = "done" /\ view[v].admitted /\ view[v].res = "200"
    /\ view[v].cred.k = "token"

\* A request carrying a token past its expiry was sent to the login page.
C20_ExpiredTurnedAway ==
  \E v \in Views :
    /\ variant = "self_hosted" /\ view[v].pc = "done"
    /\ view[v].cred.k = "token" /\ view[v].res = "redirect"

\* The time a row's timestamp cell stands for.
TimeOfRow(row) == DateParse(EventOf(row).timestamp).ms

\* C21: under any interleaving of GET /alert requests the rows of the log are
\* in non-decreasing order of their timestamps.
C21_LogInTimestampOrder ==
  \A i, j \in 1..Len(sheet) :
    i < j => TimeOfRow(sheet[i]) <= TimeOfRow(sheet[j])

\* The step is one of a handler of a reading route.
ViewStep == view' # view

\* C22: the log is append-only under every sequence of requests to every
\* route: a step leaves the rows already there as they are and adds at most
\* one row, at the end; a row is added only by a GET /alert request, at most
\* one per request; the handlers of /manager, /manager.csv and /checklist
\* leave the log and the cooldown map unchanged.
C22_AppendOnly ==
  /\ [](Len(sheet) = Cardinality({r \in Requests : req[r].logResult = "appended"}))
  /\ [][/\ IsPrefix(sheet, sheet')
        /\ Len(sheet') <= Len(sheet) + 1
        /\ sheet' # sheet
           => \E r \in Requests :
                /\ req[r].pc = "awaitLog" /\ req'[r].logResult = "appended"
                /\ \A s \in Requests \ {r} : req'[s] = req[s]
        /\ ViewStep => sheet' = sheet /\ lastAlertByKey' = lastAlertByKey]_vars

\* A reading route was served from a log of two rows while the cooldown map
\* held an entry.
C22_Witness ==
  /\ Len(sheet) >= 2
  /\ DOMAIN lastAlertByKey # {}
  /\ \E v \in Views : view[v].pc = "done" /\ Len(view[v].fetched) >= 1

\* Membership of a status text in the two groups of words, on its lower-cased
\* form.
HasHighWord(t) ==
  \E w \in {<<"o","u","t">>, <<"e","m","p","t","y">>,
            <<"c","r","i","t","i","c","a","l">>} : Contains(LowerCase(t), w)
HasMediumWord(t) ==
  \E w \in {<<"l","o","w">>, <<"r","u","n","n","i","n","g">>} :
    Contains(LowerCase(t), w)

\* C23: a status is classified highest if its lower-cased text contains out,
\* empty or critical; otherwise medium if it contains low or running;
\* otherwise normal; a status matching both groups is classified highest.
C23_ThreeTiers ==
  output.fn = "statusClass"
  => /\ output.class = "status-danger" <=> HasHighWord(input.v)
     /\ output.class = "status-warn" <=> (~HasHighWord(input.v) /\ HasMediumWord(input.v))
     /\ output.class = "status-ok" <=> (~HasHighWord(input.v) /\ ~HasMediumWord(input.v))

\* A status with a word of each group was classified.
C23_Witness ==
  /\ output.fn = "statusClass"
  /\ HasHighWord(input.v) /\ HasMediumWord(input.v)
  /\ output.class = "status-danger"

\* What a handler has decided when it reaches its first await or its end
\* without one: whether it left the handler by a throw, whether it makes the
\* push call, whether it has called the log client, and the cooldown verdict.
DecisionOf(rec) ==
  [escaped |-> rec.escaped, push |-> rec.pushCalls, log |-> rec.logCalls,
   limited |-> rec.isRateLimited, key |-> rec.key]
Decisions ==
  [escaped : BOOLEAN, push : 0..1, log : 0..1, limited : BOOLEAN,
   key : {KeyOf(Str(milk), Destructure(ql, << >>)) : ql \in LocationInputs} \cup {<< >>}]

\* C24: the status of an alert does not enter the decisions of the handler:
\* where a request arrives with one status, the same request with any other
\* status, arriving in the same state, decides the same about dispatch and
\* logging, and leaves the cooldown map the same.
C24_StatusIrrelevant ==
  [][\A r \in Requests, ql \in LocationInputs, q1, q2 \in StatusInputs :
       (variant = "shared_secret" /\ Alert(r, Str(milk), q1, ql))
       => \E d \in Decisions :
            /\ DecisionOf(req'[r]) = d
            /\ ENABLED ( /\ Alert(r, Str(milk), q2, ql)
                         /\ DecisionOf(req'[r]) = d
                         /\ lastAlertByKey' = lastAlertByKey )]_vars

\* Halving the doubled quotes of a text.
RECURSIVE HalveQuotes(_)
HalveQuotes(s) ==
  IF s = << >> THEN << >>
  ELSE IF Len(s) >= 2 /\ s[1] = "\"" /\ s[2] = "\""
       THEN <<"\"">> \o HalveQuotes(SubSeq(s, 3, Len(s)))
       ELSE <<s[1]>> \o HalveQuotes(Tail(s))

\* Stripping the outer quotes of a field and halving the doubled ones.
Unquote(f) == HalveQuotes(SubSeq(f, 2, Len(f) - 1))

IsQuoted(f) == Len(f) >= 2 /\ f[1] = "\"" /\ f[Len(f)] = "\""

QuotesIn(s) == Cardinality({i \in 1..Len(s) : s[i] = "\""})

\* A CSV reader: a comma or a CRLF with an even number of quotes before it
\* ends a field, the CRLF also the line. ReadCsv gives the lines, each the
\* sequence of its fields as they stand in the text.
IsComma(s, j) == s[j] = ","
IsCrlf(s, j) == s[j] = "\r" /\ j < Len(s) /\ s[j + 1] = "\n"
CsvSeps(s) ==
  {j \in 1..Len(s) :
     /\ IsComma(s, j) \/ IsCrlf(s, j)
     /\ QuotesIn(SubSeq(s, 1, j - 1)) % 2 = 0}
NthOf(S, k) == CHOOSE p \in S : Cardinality({q \in S : q < p}) = k - 1
ReadCsv(s) ==
  LET seps == CsvSeps(s)
      m == Cardinality(seps)
      sep == [k \in 1..m |-> NthOf(seps, k)]
      first(k) == IF k = 1 THEN 1
                  ELSE sep[k - 1] + (IF IsCrlf(s, sep[k - 1]) THEN 2 ELSE 1)
      last(k) == IF k = m + 1 THEN Len(s) ELSE sep[k] - 1
      lineOf(k) == 1 + Cardinality({q \in 1..(k - 1) : IsCrlf(s, sep[q])})
      fieldsOn(n) == SelectSeq([k \in 1..(m + 1) |-> k], LAMBDA k : lineOf(k) = n)
  IN [n \in 1..lineOf(m + 1) |->
        [c \in 1..Len(fieldsOn(n)) |->
           SubSeq(s, first(fieldsOn(n)[c]), last(fieldsOn(n)[c]))]]

FieldsOf(a) == <<a.timestamp, a.item, a.qty, a.location, a.ip, a.userAgent>>

\* C25: csvEscape wraps the value in double quotes and doubles each quote
\* inside, so that stripping the outer quotes and halving the doubled ones
\* gives the value back; the export is one header line and one line per alert,
\* joined with CRLF, each line of exactly six such fields.
C25_CsvRoundTrip ==
  /\ output.fn = "csvEscape"
     => /\ IsQuoted(output.v)
        /\ QuotesIn(output.v) = 2 + 2 * QuotesIn(input.v)
        /\ Unquote(output.v) = input.v
  /\ output.fn = "manager.csv"
     => LET alerts == CsvAlerts(input.v)
            lines == ReadCsv(output.v)
        IN /\ Len(lines) = 1 + Len(alerts)
           /\ \A n \in 1..Len(lines) :
                /\ Len(lines[n]) = 6
                /\ \A k \in 1..6 :
                     /\ IsQuoted(lines[n][k])
                     /\ Unquote(lines[n][k]) =
                          IF n = 1 THEN CsvHeader[k] ELSE FieldsOf(alerts[n - 1])[k]

\* Bob"s was escaped to "Bob""s".
C25_Witness ==
  /\ output.fn = "csvEscape" /\ input.v = Bobs
  /\ output.v = <<"\"", "B", "o", "b", "\"", "\"", "s", "\"">>

\* An export of two alerts whose cells hold a quote was built.
C25_ExportBuilt ==
  /\ output.fn = "manager.csv" /\ Len(CsvAlerts(input.v)) = 2
  /\ QuotesIn(input.v) > 0

IsLetter(c) == IndexIn(c, Lower) > 0 \/ IndexIn(c, Upper) > 0
IsAnyChar(c) == TRUE

\* A character with P stands before position i in the same
\* whitespace-delimited word.
EarlierInWord(t, i, P(_)) ==
  \E j \in 1..(i - 1) : P(t[j]) /\ \A k \in j..(i - 1) : ~IsSpace(t[k])

\* Upper-casing, in every whitespace-delimited word, the first character that
\* has P, and lower-casing the others.
TitleCaseBy(t, P(_)) ==
  [i \in 1..Len(t) |->
     IF ~IsSpace(t[i]) /\ P(t[i]) /\ ~EarlierInWord(t, i, P)
     THEN toUpperCase(t[i]) ELSE toLowerCase(t[i])]

\* C26 as stated: prettifyText replaces every underscore with a space and
\* then, in each whitespace-delimited word, upper-cases the first letter and
\* lower-cases the rest ("first letter" read as the first character of the
\* word, or as its first alphabetic character); the empty or undefined input
\* gives the empty text.
C26_FirstLetterOfEachWord ==
  output.fn = "prettifyText"
  => /\ ~output.threw
     /\ \/ output.v = TitleCaseBy(ReplaceUnderscores(input.v), IsAnyChar)
        \/ output.v = TitleCaseBy(ReplaceUnderscores(input.v), IsLetter)

\* C26 as amended: after replacing the underscores, in each
\* whitespace-delimited word the first letter-or-digit is upper-cased and
\* everything after it lower-cased; what stands before it in the word is kept
\* as it is. whole_milk gives Whole Milk, ALREADY CAPS gives Already Caps, the
\* empty or undefined input gives the empty text.
C26_FirstWordCharOfEachWord ==
  output.fn = "prettifyText"
  => LET t == ReplaceUnderscores(input.v)
     IN /\ ~output.threw
        /\ Len(output.v) = Len(t)
        /\ \A i \in 1..Len(t) :
             output.v[i] =
               IF IsSpace(t[i]) THEN t[i]
               ELSE IF EarlierInWord(t, i, IsWordChar) THEN toLowerCase(t[i])
               ELSE IF IsWordChar(t[i]) THEN toUpperCase(t[i])
               ELSE t[i]
        /\ input.v = whole_milk
           => output.v = <<"W","h","o","l","e"," ","M","i","l","k">>
        /\ input.v = ALREADY_CAPS
           => output.v = <<"A","l","r","e","a","d","y"," ","C","a","p","s">>
        /\ input.v = << >> => output.v = << >>

\* (lOW) 2ND_shelf was prettified to (Low) 2nd Shelf.
C26_Witness ==
  /\ output.fn = "prettifyText" /\ input.v = paren_low_2nd
  /\ output.v = <<"(","L","o","w",")"," ","2","n","d"," ","S","h","e","l","f">>

\* The step leaves the entry of key k in the map and does not lower it.
EntryKept(k) ==
  /\ k \in DOMAIN lastAlertByKey'
  /\ lastAlertByKey'[k] >= lastAlertByKey[k]

\* C27: the cooldown entry of a key never decreases: under any interleaving
\* of GET /alert requests every write to lastAlertByKey[key] stores a time
\* greater than or equal to the one the entry held before.
C27_EntryNeverDecreases ==
  [][\A k \in DOMAIN lastAlertByKey :
       variant \in {"shared_secret", "delegated"} => EntryKept(k)]_vars

\* C28: the key item + "|" + location is injective: two log rows (or two
\* requests) with different (item, location) pairs never get the same key.
C28_KeyInjective ==
  \A v \in Views :
    (view[v].pc = "done" /\ view[v].route = "checklist" /\ view[v].res = "200")
    => \A i, j \in 1..Len(view[v].fetched) :
         PairOf(view[v].fetched[i]) # PairOf(view[v].fetched[j])
         => ChecklistKey(view[v].fetched[i]) # ChecklistKey(view[v].fetched[j])

\* The step sets the entry of request r's key to r's arrival time and leaves
\* the other entries as they are.
WritesEntry(r) ==
  lastAlertByKey' =
    [k \in DOMAIN lastAlertByKey \cup {req[r].key} |->
       IF k = req[r].key THEN req[r].now ELSE lastAlertByKey[k]]

\* What a step of the handlers does to the cooldown map.
CooldownWrittenOnResponse ==
  /\ \A r \in Requests :
       /\ (req[r].pc = "awaitPush" /\ req'[r].pc # "awaitPush")
          => IF req'[r].pushResult = "throws"
             THEN lastAlertByKey' = lastAlertByKey
             ELSE WritesEntry(r)
       /\ (req[r].pc # "awaitPush" /\ req'[r] # req[r])
          => lastAlertByKey' = lastAlertByKey
  /\ req' = req => lastAlertByKey' = lastAlertByKey

\* A request is suppressed when it arrives less than 60 s after one with the
\* same key whose push call was answered, also when the answer was a rejection.
RejectedPushSuppresses ==
  \A r1, r2 \in Requests :
    ( /\ r1 < r2
      /\ req[r1].pushResult \in {"ok", "http_error", "bad_body"}
      /\ req[r2].pc # "idle" /\ ~req[r2].escaped
      /\ req[r1].key = req[r2].key
      /\ req[r2].now - req[r1].now < COOLDOWN_MS )
    => req[r2].isRateLimited /\ req[r2].pushCalls = 0

\* C29: in the shared-secret and delegated variants the cooldown entry of the
\* key is set to the request's arrival time exactly when the push call
\* returned a response, whatever its status or body, and is left unchanged
\* when the push is suppressed, skipped for missing configuration, or throws;
\* a rejected push suppresses the pushes for the key for the next 60 s.
C29_EntrySetOnResponse ==
  /\ [](variant \in {"shared_secret", "delegated"} => RejectedPushSuppresses)
  /\ [][(variant \in {"shared_secret", "delegated"}) => CooldownWrittenOnResponse]_vars

\* A push was rejected and a request for the same key, 30 s later, was
\* answered as suppressed.
C29_Witness ==
  \E r1, r2 \in Requests :
    /\ variant \in {"shared_secret", "delegated"}
    /\ req[r1].pushResult = "http_error"
    /\ lastAlertByKey[req[r1].key] = req[r1].now
    /\ req[r2].key = req[r1].key /\ req[r2].now - req[r1].now = 30000
    /\ Answered(r2) /\ req[r2].isRateLimited /\ req[r2].pushCalls = 0

\* Request v arrives in this step with a token that POST /login signed and
\* that has not expired.
ArrivesWithLiveToken(v) ==
  /\ view'[v] # view[v] /\ view[v].pc # "awaitGet"
  /\ view'[v].cred.k = "token"
  /\ view'[v].cred.exp \in issued
  /\ clock \div 1000 < view'[v].cred.exp

\* What a step does about the tokens signed so far.
TokensOutliveLogout ==
  /\ issued \subseteq issued'
  /\ login'.res = "logout" => issued' = issued
  /\ \A v \in Views : ArrivesWithLiveToken(v) => view'[v].admitted

\* C30: in the self-hosted variant GET /logout keeps no record on the server:
\* a token signed by a successful POST /login is accepted by the gate on every
\* later request until its expiry, also after any number of logouts.
C30_LogoutKeepsNoRecord ==
  [][(variant = "self_hosted") => TokensOutliveLogout]_vars

\* A request with a token was admitted and served at once, four days or more
\* after the latest logout, with no login since.
C30_Witness ==
  \E v \in Views :
    /\ variant = "self_hosted" /\ login.res = "logout"
    /\ view[v].pc = "done" /\ view[v].admitted /\ view[v].res = "200"
    /\ view[v].cred.k = "token"
    /\ ~view[v].readLog /\ view[v].now > login.at

====
